---- MODULE Spec2Model ----
(***************************************************************************)
(* A model of the ChoiceScript Save Manager userscript                     *)
(* (src/choicescript-save-manager.user.js): the codec (enc / dec), the    *)
(* IndexedDB wrapper (DB), and the save engine (SaveManager.create,        *)
(* quick, import) together with the manager dialog's handlers that write   *)
(* the store (rename-save, del, exp-all).                                  *)
(*                                                                         *)
(* Text is a sequence of character tokens.  A token is one character,     *)
(* except that the words "Save" and "Slot" and the JSON literals "null",  *)
(* "true", "false" are one token each (no name or text of the model holds  *)
(* a proper prefix of them).                                               *)
(***************************************************************************)
EXTENDS Integers, Sequences, FiniteSets, TLC

(***************************************************************************)
(* Program constants                                                       *)
(***************************************************************************)
QUICK_SLOTS == 5

METADATA_FORMAT_VERSION == 1

STATE_PLAIN == "plain"

STATE_LZ == "lz"

(***************************************************************************)
(* Bounds of the model                                                     *)
(***************************************************************************)
\* number of records create() may write in one behaviour of Spec
MaxSaves == 2

\* number of records create() may write in one behaviour of SpecNaming
MaxNamed == 3

\* number of records create() may write in one behaviour of SpecQuick
MaxQuickSaves == 6

\* number of records create() may write in one behaviour of SpecRotate
MaxRotate == 6

\* number of records create() may write in one behaviour of SpecEdit
MaxEditSaves == 2

\* number of records create() may write in one behaviour of SpecRepair
MaxRepair == 6

\* largest value Date.now() takes (the clock starts at 1)
MaxClock == 7

\* number of distinct random uid() values that can follow one timestamp
MaxUid == 2

\* number of imports in one behaviour of Spec
MaxImports == 1

\* number of exports in one behaviour of Spec
MaxExports == 1

\* length of the strings among the values SpecCodec encodes
MaxStrLen == 2

\* largest N of a name "Save N" the naming claim looks for
LargestN == 9

\* number of records create() may write in one behaviour of SpecCreate
MaxCreate == 2

\* number of imports in one behaviour of SpecRound
MaxRoundImports == 2

\* number of records create() may write in one behaviour of SpecRound
MaxRound == 2

\* number of records create() may write in one behaviour of SpecManual
MaxManual == 4

\* number of quick() calls in one behaviour of SpecHeal
MaxHeal == 6

\* number of records create() may write in one behaviour of SpecImport
MaxImportSaves == 1

(***************************************************************************)
(* Small helpers                                                           *)
(***************************************************************************)
Max(S) == CHOOSE x \in S : \A y \in S : y <= x

Min(S) == CHOOSE x \in S : \A y \in S : x <= y

Digits == <<"0", "1", "2", "3", "4", "5", "6", "7", "8", "9">>

IsDigit(c) == \E i \in 1..10 : Digits[i] = c

DigitVal(c) == (CHOOSE i \in 1..10 : Digits[i] = c) - 1

\* String(n) for a natural number n: its decimal digits
RECURSIVE NatToStr(_)
NatToStr(n) ==
  IF n < 10 THEN <<Digits[n + 1]>>
  ELSE NatToStr(n \div 10) \o <<Digits[(n % 10) + 1]>>

\* the value of a non-empty run of digits
RECURSIVE DigitsVal(_)
DigitsVal(s) ==
  IF Len(s) = 0 THEN 0
  ELSE 10 * DigitsVal(SubSeq(s, 1, Len(s) - 1)) + DigitVal(s[Len(s)])

AllDigits(s) == \A i \in 1..Len(s) : IsDigit(s[i])

\* String.prototype.trim
RECURSIVE TrimLeft(_)
TrimLeft(s) == IF Len(s) > 0 /\ Head(s) = " " THEN TrimLeft(Tail(s)) ELSE s

RECURSIVE TrimRight(_)
TrimRight(s) ==
  IF Len(s) > 0 /\ s[Len(s)] = " " THEN TrimRight(SubSeq(s, 1, Len(s) - 1)) ELSE s

Trim(s) == TrimRight(TrimLeft(s))

(***************************************************************************)
(* JavaScript values and JSON text                                         *)
(*                                                                         *)
(* A value is [t |-> tag, v |-> content]: null, booleans, naturals,        *)
(* strings (sequences of characters), arrays (sequences of values) and     *)
(* objects (sequences of <<key, value>> with distinct keys, in insertion   *)
(* order); undefined and NaN are the values JSON cannot carry.             *)
(***************************************************************************)
JNull == [t |-> "null", v |-> 0]

JUndef == [t |-> "undef", v |-> 0]

JNaN == [t |-> "nan", v |-> 0]

JBool(b) == [t |-> "bool", v |-> b]

JNum(n) == [t |-> "num", v |-> n]

JStr(cs) == [t |-> "str", v |-> cs]

JArr(xs) == [t |-> "arr", v |-> xs]

JObj(ps) == [t |-> "obj", v |-> ps]

\* the characters as they are, nothing escaped (a faulty variant of EscapeChars)
EscapeNone(cs) == cs

\* the quoted form of a string: the quote and the backslash are escaped
RECURSIVE EscapeChars(_)
EscapeChars(cs) ==
  IF Len(cs) = 0 THEN <<>>
  ELSE (IF Head(cs) = "\"" \/ Head(cs) = "\\" THEN <<"\\", Head(cs)>> ELSE <<Head(cs)>>)
       \o EscapeChars(Tail(cs))

QuoteStr(cs) == <<"\"">> \o EscapeChars(cs) \o <<"\"">>

\* JSON.stringify: NaN and (inside an array) undefined become null, a
\* property whose value is undefined is left out.
RECURSIVE JSONstringify(_), StringifyElems(_), StringifyProps(_)
JSONstringify(x) ==
  CASE x.t = "null" -> <<"null">>
    [] x.t = "undef" -> <<"null">>
    [] x.t = "nan" -> <<"null">>
    [] x.t = "bool" -> IF x.v THEN <<"true">> ELSE <<"false">>
    [] x.t = "num" -> NatToStr(x.v)
    [] x.t = "str" -> QuoteStr(x.v)
    [] x.t = "arr" -> <<"[">> \o StringifyElems(x.v) \o <<"]">>
    [] x.t = "obj" -> <<"{">> \o StringifyProps(x.v) \o <<"}">>

StringifyElems(xs) ==
  IF Len(xs) = 0 THEN <<>>
  ELSE JSONstringify(Head(xs))
       \o (IF Len(xs) > 1 THEN <<",">> \o StringifyElems(Tail(xs)) ELSE <<>>)

StringifyProps(ps) ==
  IF Len(ps) = 0 THEN <<>>
  ELSE IF Head(ps)[2].t = "undef" THEN StringifyProps(Tail(ps))
  ELSE LET rest == StringifyProps(Tail(ps))
       IN QuoteStr(Head(ps)[1]) \o <<":">> \o JSONstringify(Head(ps)[2])
          \o (IF Len(rest) > 0 THEN <<",">> \o rest ELSE <<>>)

\* JSON.parse, by recursive descent.  A result is [ok, val, rest]; ok is
\* FALSE where JSON.parse throws a SyntaxError.
ParseFail == [ok |-> FALSE, val |-> JNull, rest |-> <<>>]

ParseOk(x, r) == [ok |-> TRUE, val |-> x, rest |-> r]

RECURSIVE DigitRun(_)
DigitRun(s) ==
  IF Len(s) > 0 /\ IsDigit(Head(s)) THEN <<Head(s)>> \o DigitRun(Tail(s)) ELSE <<>>

\* the characters of a string up to its closing quote; s starts after the
\* opening quote
RECURSIVE ParseChars(_, _)
ParseChars(s, acc) ==
  IF Len(s) = 0 THEN ParseFail
  ELSE IF Head(s) = "\"" THEN ParseOk(acc, Tail(s))
  ELSE IF Head(s) = "\\"
       THEN IF Len(s) > 1 /\ (s[2] = "\"" \/ s[2] = "\\")
            THEN ParseChars(Tail(Tail(s)), Append(acc, s[2]))
            ELSE ParseFail
  ELSE ParseChars(Tail(s), Append(acc, Head(s)))

RECURSIVE ParseValue(_), ParseElems(_, _), ParseProps(_, _)
ParseValue(s) ==
  IF Len(s) = 0 THEN ParseFail
  ELSE CASE Head(s) = "null" -> ParseOk(JNull, Tail(s))
         [] Head(s) = "true" -> ParseOk(JBool(TRUE), Tail(s))
         [] Head(s) = "false" -> ParseOk(JBool(FALSE), Tail(s))
         [] IsDigit(Head(s)) ->
              LET d == DigitRun(s)
              IN IF Len(d) > 1 /\ Head(d) = "0" THEN ParseFail
                 ELSE ParseOk(JNum(DigitsVal(d)), SubSeq(s, Len(d) + 1, Len(s)))
         [] Head(s) = "\"" ->
              LET r == ParseChars(Tail(s), <<>>)
              IN IF r.ok THEN ParseOk(JStr(r.val), r.rest) ELSE ParseFail
         [] Head(s) = "[" ->
              IF Len(s) > 1 /\ s[2] = "]" THEN ParseOk(JArr(<<>>), Tail(Tail(s)))
              ELSE ParseElems(Tail(s), <<>>)
         [] Head(s) = "{" ->
              IF Len(s) > 1 /\ s[2] = "}" THEN ParseOk(JObj(<<>>), Tail(Tail(s)))
              ELSE ParseProps(Tail(s), <<>>)
         [] OTHER -> ParseFail

ParseElems(s, acc) ==
  LET r == ParseValue(s)
  IN IF ~r.ok \/ Len(r.rest) = 0 THEN ParseFail
     ELSE IF Head(r.rest) = "]" THEN ParseOk(JArr(Append(acc, r.val)), Tail(r.rest))
     ELSE IF Head(r.rest) = "," THEN ParseElems(Tail(r.rest), Append(acc, r.val))
     ELSE ParseFail

ParseProps(s, acc) ==
  IF Len(s) = 0 \/ Head(s) # "\"" THEN ParseFail
  ELSE LET k == ParseChars(Tail(s), <<>>)
       IN IF ~k.ok \/ Len(k.rest) = 0 \/ Head(k.rest) # ":" THEN ParseFail
          ELSE LET r == ParseValue(Tail(k.rest))
               IN IF ~r.ok \/ Len(r.rest) = 0 THEN ParseFail
                  ELSE IF Head(r.rest) = "}"
                       THEN ParseOk(JObj(Append(acc, <<k.val, r.val>>)), Tail(r.rest))
                  ELSE IF Head(r.rest) = ","
                       THEN ParseProps(Tail(r.rest), Append(acc, <<k.val, r.val>>))
                  ELSE ParseFail

\* JSON.parse(text): [ok, val]
JSONparse(s) ==
  LET r == ParseValue(s)
  IN IF r.ok /\ Len(r.rest) = 0 THEN [ok |-> TRUE, val |-> r.val]
     ELSE [ok |-> FALSE, val |-> JNull]

(***************************************************************************)
(* LZString (lz-string 1.5.0, loaded by @require): a Base64 text is        *)
(* the marker "LZ:" followed by what it decompresses to.  A text that      *)
(* compressToBase64 did not produce decompresses to the empty text.        *)
(***************************************************************************)
compressToBase64(s) == <<"LZ:">> \o s

\* decompressFromBase64("") is null, which JSON.parse reads as the text null
decompressFromBase64(z) ==
  IF Len(z) = 0 THEN <<"null">>
  ELSE IF Head(z) = "LZ:" THEN Tail(z) ELSE <<>>

(***************************************************************************)
(* The codec                                                               *)
(***************************************************************************)
\* enc(o) under settings.compression = comp and HAS_LZ = lz
enc(o, comp, lz) ==
  IF comp /\ lz
  THEN [state |-> compressToBase64(JSONstringify(o)), enc |-> STATE_LZ]
  ELSE [state |-> JSONstringify(o), enc |-> STATE_PLAIN]

DecodeError == "Corrupted save data or decode failure."

\* the message of the error dec throws where LZString is undefined
ErrLZUnavailable == "LZString unavailable for decompression."

\* the SyntaxError JSON.parse throws
ErrSyntax == "SyntaxError"

\* dec with the dispatch on r.enc left out (a faulty variant of dec)
decPlainOnly(r, lz) ==
  LET p == JSONparse(r.state)
  IN IF p.ok THEN [ok |-> TRUE, val |-> p.val, err |-> "", cause |-> ""]
     ELSE [ok |-> FALSE, val |-> JNull, err |-> DecodeError, cause |-> ErrSyntax]

\* dec(r): [ok, val, err, cause]; every throw inside is caught and rethrown
\* as an Error with the message DecodeError and the caught error as its cause
dec(r, lz) ==
  LET text == IF r.enc = STATE_LZ THEN decompressFromBase64(r.state) ELSE r.state
      p == JSONparse(text)
  IN IF r.enc = STATE_LZ /\ ~lz
     THEN [ok |-> FALSE, val |-> JNull, err |-> DecodeError, cause |-> ErrLZUnavailable]
     ELSE IF p.ok THEN [ok |-> TRUE, val |-> p.val, err |-> "", cause |-> ""]
     ELSE [ok |-> FALSE, val |-> JNull, err |-> DecodeError, cause |-> ErrSyntax]

(***************************************************************************)
(* Save records                                                            *)
(*                                                                         *)
(* A record is [id, game, meta |-> [name, scene, ts, quick, fmt], state,   *)
(* enc].  An id is [g, t, u]: the id create() builds from gameId(), now()  *)
(* and uid(), or the id of a record written elsewhere (g = "ext").  NULL   *)
(* stands for null / undefined in the numeric fields meta.ts and           *)
(* meta.quick, the empty text for a missing name, scene or state, NoId     *)
(* for a missing or empty id, and fmt 0 for a missing meta.fmt.            *)
(***************************************************************************)
NULL == -1

NoId == [g |-> "", t |-> 0, u |-> 0]

\* the id true of an entry read from a file: a value that is no IndexedDB key
BoolId == [g |-> "true", t |-> 0, u |-> 0]

\* put(o) with keyPath "id": strings are keys, true is not
IsKey(id) == id # BoolId

Titles == {"g1", "g2"}

\* the order of the game part of an id in IndexedDB's key order
GameRank(g) == CASE g = "" -> 0 [] g = "ext" -> 1 [] g = "g1" -> 2 [] g = "g2" -> 3

\* IndexedDB's order of primary keys: the id strings compared
IdLess(a, b) ==
  \/ GameRank(a.g) < GameRank(b.g)
  \/ a.g = b.g /\ a.t < b.t
  \/ a.g = b.g /\ a.t = b.t /\ a.u < b.u

(***************************************************************************)
(* DB: the object store "saves" (keyPath id, index game) is the set of     *)
(* the records it holds, no two with the same id.                          *)
(***************************************************************************)
\* put replacing the record that holds the slot of o as well (a faulty
\* variant of DBput)
DBputSlotKey(S, o) ==
  {r \in S : /\ r.id # o.id
             /\ \/ o.meta.quick = NULL
                \/ r.game # o.game
                \/ r.meta.quick # o.meta.quick} \cup {o}

\* put replacing the record of the same game and name as well (a faulty
\* variant of DBput)
DBputByName(S, o) ==
  {r \in S : r.id # o.id /\ (r.game # o.game \/ r.meta.name # o.meta.name)} \cup {o}

DBput(S, o) == {r \in S : r.id # o.id} \cup {o}

\* DB.get(id): the set holding the record, empty when there is none
DBget(S, id) == {r \in S : r.id = id}

DBdelete(S, id) == {r \in S : r.id # id}

\* index("game").getAll(g): the records of g in primary key order
RECURSIVE IndexGetAll(_)
IndexGetAll(R) ==
  IF R = {} THEN <<>>
  ELSE LET m == CHOOSE x \in R : \A y \in R \ {x} : IdLess(x.id, y.id)
       IN <<m>> \o IndexGetAll(R \ {m})

\* Array.prototype.sort with a comparator that puts a before b exactly
\* when Before(a, b): a stable insertion sort
RECURSIVE InsertDesc(_, _)
InsertDesc(x, s) ==
  IF Len(s) = 0 THEN <<x>>
  ELSE IF Head(s).meta.ts >= x.meta.ts THEN <<Head(s)>> \o InsertDesc(x, Tail(s))
  ELSE <<x>> \o s

RECURSIVE SortDesc(_)
SortDesc(s) ==
  IF Len(s) = 0 THEN <<>>
  ELSE InsertDesc(s[Len(s)], SortDesc(SubSeq(s, 1, Len(s) - 1)))

RECURSIVE InsertAsc(_, _)
InsertAsc(x, s) ==
  IF Len(s) = 0 THEN <<x>>
  ELSE IF Head(s).meta.ts <= x.meta.ts THEN <<Head(s)>> \o InsertAsc(x, Tail(s))
  ELSE <<x>> \o s

RECURSIVE SortAsc(_)
SortAsc(s) ==
  IF Len(s) = 0 THEN <<>>
  ELSE InsertAsc(s[Len(s)], SortAsc(SubSeq(s, 1, Len(s) - 1)))

\* DB.list(g): the records of game g, newest first
DBlist(S, g) == SortDesc(IndexGetAll({r \in S : r.game = g}))

(***************************************************************************)
(* Numbers in names.  A number is [nan, m, e]: NaN, or the decimal         *)
(* m / 10^e.                                                               *)
(***************************************************************************)
RECURSIVE Pow10(_)
Pow10(e) == IF e = 0 THEN 1 ELSE 10 * Pow10(e - 1)

NaN == [nan |-> TRUE, m |-> 0, e |-> 0]

Num(m, e) == [nan |-> FALSE, m |-> m, e |-> e]

\* Number(text): white space is trimmed, the empty text is 0, a decimal
\* literal is its value, anything else is NaN
Number(s) ==
  LET x == Trim(s)
      d1 == DigitRun(x)
      r1 == SubSeq(x, Len(d1) + 1, Len(x))
      d2 == IF Len(r1) > 0 /\ Head(r1) = "." THEN DigitRun(Tail(r1)) ELSE <<>>
  IN IF Len(x) = 0 THEN Num(0, 0)
     ELSE IF Len(r1) = 0 THEN Num(DigitsVal(d1), 0)
     ELSE IF Head(r1) = "." /\ Len(r1) = 1 + Len(d2) /\ Len(d1) + Len(d2) > 0
          THEN Num(DigitsVal(d1 \o d2), Len(d2))
     ELSE NaN

NumLess(a, b) == a.m * Pow10(b.e) < b.m * Pow10(a.e)

\* the digits of n, padded with zeros on the left to k digits
RECURSIVE PadDigits(_, _)
PadDigits(n, k) ==
  IF k = 0 THEN <<>> ELSE PadDigits(n \div 10, k - 1) \o <<Digits[(n % 10) + 1]>>

RECURSIVE Shorten(_)
Shorten(a) == IF a.e > 0 /\ a.m % 10 = 0 THEN Shorten(Num(a.m \div 10, a.e - 1)) ELSE a

\* String(a) for a number a >= 0 that is not NaN
NumToStr(a) ==
  LET b == Shorten(a)
  IN IF b.e = 0 THEN NatToStr(b.m)
     ELSE NatToStr(b.m \div Pow10(b.e)) \o <<".">> \o PadDigits(b.m % Pow10(b.e), b.e)

StartsWithSave(n) == Len(n) >= 2 /\ n[1] = "Save" /\ n[2] = " "

(***************************************************************************)
(* SaveManager                                                             *)
(***************************************************************************)
\* the value of property k of x (undefined when x has none)
GetProp(x, k) ==
  IF x.t = "obj" /\ \E i \in 1..Len(x.v) : x.v[i][1] = k
  THEN x.v[CHOOSE i \in 1..Len(x.v) : x.v[i][1] = k][2]
  ELSE JUndef

\* s.stats?.sceneName || ""
SceneOf(s) ==
  LET n == GetProp(GetProp(s, <<"stats">>), <<"sceneName">>)
  IN IF n.t = "str" THEN n.v ELSE <<>>

\* what create() maps one listed record to: 0 for a quick record (a truthy
\* meta.quick) and for a name that does not start with "Save ", else the
\* Number after the prefix, NaN read as 0
SaveNumber(r) ==
  IF (r.meta.quick # NULL /\ r.meta.quick # 0) \/ ~StartsWithSave(r.meta.name)
  THEN Num(0, 0)
  ELSE LET n == Number(SubSeq(r.meta.name, 3, Len(r.meta.name)))
       IN IF n.nan THEN Num(0, 0) ELSE n

\* Math.max(0, ...list.map(SaveNumber))
RECURSIVE MaxSaveNumber(_)
MaxSaveNumber(list) ==
  IF Len(list) = 0 THEN Num(0, 0)
  ELSE LET a == SaveNumber(Head(list))
           b == MaxSaveNumber(Tail(list))
       IN IF NumLess(b, a) THEN a ELSE b

\* `Save ${max + 1}`
DefaultName(list) ==
  LET max == MaxSaveNumber(list)
  IN <<"Save", " ">> \o NumToStr(Num(max.m + Pow10(max.e), max.e))

\* name?.trim() || `Save ${max + 1}`
NameFor(name, list) == IF Len(Trim(name)) > 0 THEN Trim(name) ELSE DefaultName(list)

\* the record create(name, quick) puts: s is the captured state, id the new
\* id, ts the time, g the game, list the listing of g
NewRecord(s, id, g, ts, name, quick, comp, lz, list) ==
  LET e == enc(s, comp, lz)
  IN [id |-> id, game |-> g,
      meta |-> [name |-> NameFor(name, list), scene |-> SceneOf(s), ts |-> ts,
                quick |-> quick, fmt |-> METADATA_FORMAT_VERSION],
      state |-> e.state, enc |-> e.enc]

\* quick(): the quick records of the listing, oldest first
IsQuick(r) == r.meta.quick # NULL

qSavesOf(S, g) == SortAsc(SelectSeq(DBlist(S, g), IsQuick))

\* TargetSlot filling the highest free slot first (a faulty variant of TargetSlot)
TargetSlotHighest(q) ==
  IF Len(q) < QUICK_SLOTS
  THEN LET free == {i \in 1..QUICK_SLOTS : \A k \in 1..Len(q) : q[k].meta.quick # i}
       IN IF free # {} THEN Max(free) ELSE 1
  ELSE q[1].meta.quick

\* TargetSlot reusing the slot of the newest quick record (a faulty variant of TargetSlot)
TargetSlotNewest(q) ==
  IF Len(q) < QUICK_SLOTS
  THEN LET free == {i \in 1..QUICK_SLOTS : \A k \in 1..Len(q) : q[k].meta.quick # i}
       IN IF free # {} THEN Min(free) ELSE 1
  ELSE q[Len(q)].meta.quick

\* quick(): the slot s
TargetSlot(q) ==
  IF Len(q) < QUICK_SLOTS
  THEN LET free == {i \in 1..QUICK_SLOTS : \A k \in 1..Len(q) : q[k].meta.quick # i}
       IN IF free # {} THEN Min(free) ELSE 1
  ELSE q[1].meta.quick

\* the loop deleting nothing (a faulty variant of EvictSlot)
EvictNone(S, q, s) == S

\* the loop deleting every quick record (a faulty variant of EvictSlot)
EvictAll(S, q, s) == {r \in S : ~\E k \in 1..Len(q) : q[k].id = r.id}

\* the loop leaving after its first delete (a faulty variant of EvictSlot)
EvictFirst(S, q, s) ==
  LET ks == {k \in 1..Len(q) : q[k].meta.quick = s}
  IN IF ks = {} THEN S ELSE {r \in S : r.id # q[Min(ks)].id}

\* the loop deleting by timestamp: every record of the game saved no later
\* than a holder of s (a faulty variant of EvictSlot)
EvictOlder(S, q, s) ==
  {r \in S : ~\E k \in 1..Len(q) :
               /\ q[k].meta.quick = s
               /\ r.game = q[k].game
               /\ r.meta.ts <= q[k].meta.ts}

\* quick(): the store after the loop that deletes the records holding s
EvictSlot(S, q, s) ==
  {r \in S : ~\E k \in 1..Len(q) : q[k].meta.quick = s /\ q[k].id = r.id}

\* `Slot ${s}/${QUICK_SLOTS}`
SlotName(s) == <<"Slot", " ">> \o NatToStr(s) \o <<"/">> \o NatToStr(QUICK_SLOTS)

(***************************************************************************)
(* import(json).  A file is [kind, entries]: kind "garbage" is a text      *)
(* JSON.parse rejects, "value" a JSON text that is no array, "array" an    *)
(* array of entries; an entry has the shape of a record.                   *)
(***************************************************************************)
ErrInvalidFormat == "Invalid format"

ErrIncompatible == "Incompatible save version"

ErrNoValid == "No valid saves found in file."

ErrCorrupted == "Invalid or corrupted JSON file."

\* the version read off every entry: 0 unless all carry the version of the
\* first (a faulty variant of BundleVersion)
BundleVersionAll(entries) ==
  IF Len(entries) = 0 THEN 0
  ELSE IF \A i \in 1..Len(entries) : entries[i].meta.fmt = entries[1].meta.fmt
       THEN entries[1].meta.fmt
  ELSE 0

\* parsed[0]?.meta?.fmt || 0
BundleVersion(entries) == IF Len(entries) = 0 THEN 0 ELSE entries[1].meta.fmt

\* r?.id && r?.state && r?.meta?.ts != null
ValidEntry(r) == r.id # NoId /\ Len(r.state) > 0 /\ r.meta.ts # NULL

\* the puts of valid.map, in order, each entry with game set to g; the put
\* of an entry whose id is not a key throws DataError and stores nothing
RECURSIVE PutAll(_, _, _)
PutAll(S, valid, g) ==
  IF Len(valid) = 0 THEN S
  ELSE IF ~IsKey(Head(valid).id) THEN PutAll(S, Tail(valid), g)
  ELSE PutAll(DBput(S, [Head(valid) EXCEPT !.game = g]), Tail(valid), g)

\* the outcome of Promise.all over the puts
PutAllResult(valid) ==
  IF \E i \in 1..Len(valid) : ~IsKey(valid[i].id) THEN ErrCorrupted ELSE "ok"

\* import without the version check (a faulty variant of ImportResult)
ImportNoGate(S, b, g) ==
  LET valid == SelectSeq(b.entries, ValidEntry)
  IN IF b.kind = "garbage" THEN [res |-> ErrCorrupted, store |-> S]
     ELSE IF b.kind # "array" THEN [res |-> ErrInvalidFormat, store |-> S]
     ELSE IF Len(valid) = 0 THEN [res |-> ErrNoValid, store |-> S]
     ELSE [res |-> PutAllResult(valid), store |-> PutAll(S, valid, g)]

\* what IndexedDB rejects a request with: the error event of the request
ErrStore == "StoreError"

\* the catch of import(json): the message of the error it throws on
ImportCatch(msg) ==
  IF msg \in {ErrInvalidFormat, ErrNoValid, ErrIncompatible} THEN msg ELSE ErrCorrupted

\* the sequence s without its k-th element
Without(s, k) == SubSeq(s, 1, k - 1) \o SubSeq(s, k + 1, Len(s))

\* import(json): [res, store]
ImportResult(S, b, g) ==
  LET valid == SelectSeq(b.entries, ValidEntry)
  IN IF b.kind = "garbage" THEN [res |-> ErrCorrupted, store |-> S]
     ELSE IF b.kind # "array" THEN [res |-> ErrInvalidFormat, store |-> S]
     ELSE IF BundleVersion(b.entries) # METADATA_FORMAT_VERSION
          THEN [res |-> ErrIncompatible, store |-> S]
     ELSE IF Len(valid) = 0 THEN [res |-> ErrNoValid, store |-> S]
     ELSE [res |-> PutAllResult(valid), store |-> PutAll(S, valid, g)]

(***************************************************************************)
(* Inputs                                                                  *)
(***************************************************************************)
StateA ==
  JObj(<< <<<<"stats">>, JObj(<< <<<<"sceneName">>, JStr(<<"a">>)>> >>)>>,
          <<<<"lineNum">>, JNum(3)>> >>)

StateB == JObj(<< <<<<"stats">>, JObj(<<>>)>>, <<<<"temps">>, JArr(<<>>)>> >>)

GameStates == {StateA, StateB}

ErrNoState == "No safe state found. Try making a choice first."

\* what capture() settles with: a state, or the rejection
CaptureOk(s) == [ok |-> TRUE, s |-> s, err |-> ""]

CaptureFail == [ok |-> FALSE, s |-> JNull, err |-> ErrNoState]

\* what the user types into the name field of the Save bar
CreateNames == {<<>>, <<" ">>, <<"Save", " ", "3", " ">>}

\* what the user types into the rename field
RenameNames == {<<" ">>, <<"Save", " ", "2", ".", "5">>}

\* entries of files written elsewhere
ExtEntry(u, st, ts, quick, fmt) ==
  [id |-> IF u = 0 THEN NoId ELSE [g |-> "ext", t |-> 1, u |-> u],
   game |-> "ext",
   meta |-> [name |-> <<"x">>, scene |-> <<>>, ts |-> ts, quick |-> quick, fmt |-> fmt],
   state |-> st, enc |-> STATE_PLAIN]

TextA == JSONstringify(StateA)

EntGood1 == ExtEntry(1, TextA, 1, NULL, 1)

EntGood2 == ExtEntry(2, TextA, 2, 1, 1)

EntNoId == ExtEntry(0, TextA, 1, NULL, 1)

EntNoState == ExtEntry(3, <<>>, 1, NULL, 1)

EntNoTs == ExtEntry(4, TextA, NULL, NULL, 1)

EntV2 == ExtEntry(3, TextA, 1, NULL, 2)

\* an entry of a file with "id": true
EntBoolId == [ExtEntry(1, TextA, 1, NULL, 1) EXCEPT !.id = BoolId]

ArrayFile(es) == [kind |-> "array", entries |-> es]

NoFile == [kind |-> "garbage", entries |-> <<>>]

\* the files written elsewhere that the user may pick for import
ForeignFiles ==
  { NoFile,
    [kind |-> "value", entries |-> <<>>],
    ArrayFile(<<>>),
    ArrayFile(<<EntV2, EntGood1>>),
    ArrayFile(<<EntGood1, EntNoId, EntGood2>>),
    ArrayFile(<<EntNoTs, EntGood2, EntV2>>),
    ArrayFile(<<EntNoState, EntNoTs, EntNoId>>),
    ArrayFile(<<EntGood2, EntBoolId>>) }

(***************************************************************************)
(* The text of a file.  exp-all writes JSON.stringify(this.rows); import   *)
(* reads the text of the file with JSON.parse.  An id string is            *)
(* `${g}_${t}_${u}`.                                                       *)
(***************************************************************************)
IdStr(id) == <<id.g, "_">> \o NatToStr(id.t) \o <<"_">> \o NatToStr(id.u)

\* the id an id string stands for (no text the model reads holds an id
\* string of another form)
IdOf(s) ==
  LET rest == SubSeq(s, 3, Len(s))
      d1 == DigitRun(rest)
      after == SubSeq(rest, Len(d1) + 1, Len(rest))
  IN IF /\ Len(s) >= 5
        /\ s[2] = "_"
        /\ Len(d1) > 0
        /\ Len(after) >= 2
        /\ Head(after) = "_"
        /\ AllDigits(Tail(after))
     THEN [g |-> s[1], t |-> DigitsVal(d1), u |-> DigitsVal(Tail(after))]
     ELSE NoId

\* a record as the JavaScript object it is
RecToJ(r) ==
  JObj(<< <<<<"id">>, JStr(IdStr(r.id))>>,
          <<<<"game">>, JStr(<<r.game>>)>>,
          <<<<"meta">>,
            JObj(<< <<<<"name">>, JStr(r.meta.name)>>,
                    <<<<"scene">>, JStr(r.meta.scene)>>,
                    <<<<"ts">>, JNum(r.meta.ts)>>,
                    <<<<"quick">>, IF r.meta.quick = NULL THEN JNull ELSE JNum(r.meta.quick)>>,
                    <<<<"fmt">>, JNum(r.meta.fmt)>> >>)>>,
          <<<<"state">>, JStr(r.state)>>,
          <<<<"enc">>, JStr(<<r.enc>>)>> >>)

\* the value of a string property, d where x has no such string
StrProp(x, k, d) == IF GetProp(x, k).t = "str" THEN GetProp(x, k).v ELSE d

\* the value of a number property, d where x has no such number
NumProp(x, k, d) == IF GetProp(x, k).t = "num" THEN GetProp(x, k).v ELSE d

\* an element of a parsed array as an entry
JToEntry(x) ==
  LET id == GetProp(x, <<"id">>)
      m == GetProp(x, <<"meta">>)
      game == StrProp(x, <<"game">>, <<>>)
      e == StrProp(x, <<"enc">>, <<>>)
  IN [id |-> IF id.t = "str" THEN IdOf(id.v)
             ELSE IF id = JBool(TRUE) THEN BoolId ELSE NoId,
      game |-> IF Len(game) = 1 THEN game[1] ELSE "",
      meta |-> [name |-> StrProp(m, <<"name">>, <<>>),
                scene |-> StrProp(m, <<"scene">>, <<>>),
                ts |-> NumProp(m, <<"ts">>, NULL),
                quick |-> NumProp(m, <<"quick">>, NULL),
                fmt |-> NumProp(m, <<"fmt">>, 0)],
      state |-> StrProp(x, <<"state">>, <<>>),
      enc |-> IF Len(e) = 1 THEN e[1] ELSE ""]

\* JSON.stringify(rows)
ExportText(rows) == JSONstringify(JArr([i \in 1..Len(rows) |-> RecToJ(rows[i])]))

\* the text of a file as import parses it
ReadFile(text) ==
  LET p == JSONparse(text)
  IN IF ~p.ok THEN [kind |-> "garbage", entries |-> <<>>]
     ELSE IF p.val.t # "arr" THEN [kind |-> "value", entries |-> <<>>]
     ELSE [kind |-> "array", entries |-> [i \in 1..Len(p.val.v) |-> JToEntry(p.val.v[i])]]

(***************************************************************************)
(* State                                                                   *)
(***************************************************************************)
VARIABLES
  store,        \* the records of the object store
  clock,        \* the last value of Date.now()
  title,        \* gameId() of the page
  compression,  \* settings.compression
  hasLZ,        \* HAS_LZ
  issued,       \* the records create() has put so far: [id, quick] of each
  file,         \* the file the export downloaded
  nexports,     \* the number of exports so far
  nimports,     \* the number of imports so far
  last,         \* the last operation: what it was given and how it ended
  dels,         \* whether a quick record has been deleted through the listing
  codec,        \* the codec under test: its input and results
  load,         \* the load(id) call in progress and what it has done
  calls,        \* the quick() calls in progress, operation by operation
  edit,         \* the rename-save in progress: what its db.get returned
  db            \* DB.dbP, and whether indexedDB can serve requests now

vars ==
  <<store, clock, title, compression, hasLZ, issued, file, nexports, nimports, last,
    dels, codec, load, calls, edit, db>>

IssuedIds == {i.id : i \in issued}

\* the number of quick() calls that have returned successfully
nquick == Cardinality({i \in issued : i.quick # NULL})

\* the slots quick() has filled successfully for game g
UsedSlots(g) == {i.quick : i \in {j \in issued : j.id.g = g /\ j.quick # NULL}}

\* slot is the slot quick() chose, id the id of the record create() put
Last(op, res, slot, id) == [op |-> op, res |-> res, slot |-> slot, id |-> id]

CodecIdle == [pc |-> "idle", s |-> JNull, r |-> [state |-> <<>>, enc |-> STATE_PLAIN],
              out |-> [ok |-> FALSE, val |-> JNull, err |-> "", cause |-> ""]]

\* no load(id) has been called
LoadIdle ==
  [pc |-> "idle", cookie |-> FALSE, hooks |-> FALSE, st |-> FALSE,
   log |-> <<>>, toasts |-> <<>>, uncaught |-> FALSE]

\* the two call sites of quick(), neither running
Callers == {1, 2}

CallIdle == [pc |-> "idle", q |-> <<>>, s |-> 0, i |-> 0]

CallsIdle == [c \in Callers |-> CallIdle]

\* no rename-save is running
EditIdle == [pc |-> "idle", id |-> NoId, obj |-> {}]

\* dbP is "none" before the first DB.open(), then the promise it made:
\* "open" resolved with the connection, "failed" rejected
DbNone == [dbP |-> "none", healthy |-> TRUE]

\* an earlier operation of the page has opened the database
DbReady == [dbP |-> "open", healthy |-> TRUE]

\* the page has loaded: settings.compression is what localStorage holds
Init ==
  /\ store = {}
  /\ clock = 1
  /\ title = "g1"
  /\ compression \in BOOLEAN
  /\ hasLZ = TRUE
  /\ issued = {}
  /\ file = NoFile
  /\ nexports = 0
  /\ nimports = 0
  /\ last = Last("init", "ok", 0, NoId)
  /\ dels = FALSE
  /\ codec = CodecIdle
  /\ load = LoadIdle
  /\ calls = CallsIdle
  /\ edit = EditIdle
  /\ db = DbReady

(***************************************************************************)
(* Operations.  Each is one handler run to its end; Date.now() has moved   *)
(* on by d since it was last read.                                         *)
(***************************************************************************)
\* create(name) from the Save bar or the Save button: capture() rejects
CreateFail ==
  /\ last' = Last("create", ErrNoState, 0, NoId)
  /\ UNCHANGED <<db, edit, store, clock, title, compression, hasLZ, issued, file, nexports,
                 nimports, dels, codec, load, calls>>

\* create(name) from the Save bar or the Save button
Create(name, s, d, u, maxIssued) ==
  LET id == [g |-> title, t |-> clock + d, u |-> u]
      rec == NewRecord(s, id, title, clock + d, name, NULL, compression, hasLZ,
                       DBlist(store, title))
  IN /\ Cardinality(issued) < maxIssued
     /\ clock + d <= MaxClock
     /\ id \notin IssuedIds
     /\ store' = DBput(store, rec)
     /\ clock' = clock + d
     /\ issued' = issued \cup {[id |-> id, quick |-> NULL]}
     /\ last' = Last("create", "ok", 0, id)
     /\ UNCHANGED <<db, edit, title, compression, hasLZ, file, nexports, nimports, dels, codec,
                    load, calls>>

\* quick() from the Quick Save button: capture() rejects inside create()
QuickSaveFail ==
  LET q == qSavesOf(store, title)
      s == TargetSlot(q)
  IN /\ store' = EvictSlot(store, q, s)
     /\ last' = Last("quick", ErrNoState, s, NoId)
     /\ UNCHANGED <<db, edit, clock, title, compression, hasLZ, issued, file, nexports,
                    nimports, dels, codec, load, calls>>

\* quick() from the Quick Save button
QuickSave(st, d, u, maxIssued) ==
  LET q == qSavesOf(store, title)
      s == TargetSlot(q)
      S1 == EvictSlot(store, q, s)
      id == [g |-> title, t |-> clock + d, u |-> u]
      rec == NewRecord(st, id, title, clock + d, SlotName(s), s, compression, hasLZ,
                       DBlist(S1, title))
  IN /\ Cardinality(issued) < maxIssued
     /\ clock + d <= MaxClock
     /\ id \notin IssuedIds
     /\ store' = DBput(S1, rec)
     /\ clock' = clock + d
     /\ issued' = issued \cup {[id |-> id, quick |-> s]}
     /\ last' = Last("quick", "ok", s, id)
     /\ UNCHANGED <<db, edit, title, compression, hasLZ, file, nexports, nimports, dels, codec,
                    load, calls>>

\* rename-save on the row of record id
Rename(id, name) ==
  LET obj == DBget(store, id)
      new == IF Len(Trim(name)) > 0 THEN Trim(name) ELSE <<"Unnamed Save">>
  IN /\ store' = IF obj = {} THEN store
                 ELSE LET o == CHOOSE r \in obj : TRUE
                      IN DBput(store, [o EXCEPT !.meta.name = new])
     /\ last' = Last("rename", "ok", 0, id)
     /\ UNCHANGED <<db, edit, clock, title, compression, hasLZ, issued, file, nexports,
                    nimports, dels, codec, load, calls>>

\* del on the row of record id
Delete(id) ==
  /\ store' = DBdelete(store, id)
  /\ last' = Last("del", "ok", 0, id)
  /\ dels' = (dels \/ \E r \in DBget(store, id) : IsQuick(r))
  /\ UNCHANGED <<db, edit, clock, title, compression, hasLZ, issued, file, nexports, nimports,
                 codec, load, calls>>

\* exp-all: the file downloaded holds the text of the rows of the listing;
\* file is that text as import will parse it
ExportAll ==
  /\ nexports < MaxExports
  /\ nexports' = nexports + 1
  /\ file' = ReadFile(ExportText(DBlist(store, title)))
  /\ last' = Last("export", "ok", 0, NoId)
  /\ UNCHANGED <<db, edit, store, clock, title, compression, hasLZ, issued, nimports, dels,
                 codec, load, calls>>

\* import of the file f, the max-th at most
ImportFile(f, max) ==
  LET r == ImportResult(store, f, title)
  IN /\ nimports < max
     /\ nimports' = nimports + 1
     /\ store' = r.store
     /\ last' = Last("import", r.res, 0, NoId)
     /\ UNCHANGED <<db, edit, clock, title, compression, hasLZ, issued, file, nexports, dels,
                    codec, load, calls>>

\* import of the file f
Import(f) == ImportFile(f, MaxImports)

\* the user opens the page of another game
Navigate(g) ==
  /\ g # title
  /\ title' = g
  /\ last' = Last("navigate", "ok", 0, NoId)
  /\ UNCHANGED <<db, edit, store, clock, compression, hasLZ, issued, file, nexports, nimports,
                 dels, codec, load, calls>>

\* the "Compress saves" box of the settings panel
SetCompression ==
  /\ compression' = ~compression
  /\ last' = Last("settings", "ok", 0, NoId)
  /\ UNCHANGED <<db, edit, store, clock, title, hasLZ, issued, file, nexports, nimports, dels,
                 codec, load, calls>>

\* create(): capture() has resolved, then db.list or db.put rejects
CreateStoreFail ==
  /\ last' = Last("create", ErrStore, 0, NoId)
  /\ UNCHANGED <<db, edit, store, clock, title, compression, hasLZ, issued, file, nexports,
                 nimports, dels, codec, load, calls>>

\* quick(): op is the store operation that rejects: the list at its start,
\* the first delete of the loop, or the put of create()
QuickStoreFail(op) ==
  LET q == qSavesOf(store, title)
      s == TargetSlot(q)
  IN /\ op = "delete" => \E k \in 1..Len(q) : q[k].meta.quick = s
     /\ store' = IF op = "put" THEN EvictSlot(store, q, s) ELSE store
     /\ last' = Last("quick", ErrStore, IF op = "list" THEN 0 ELSE s, NoId)
     /\ UNCHANGED <<db, edit, clock, title, compression, hasLZ, issued, file, nexports,
                    nimports, dels, codec, load, calls>>

\* import of the file f: the put of the k-th entry that passed the filter
\* rejects, the other puts are transactions of their own
ImportStoreFail(f, k) ==
  LET valid == SelectSeq(f.entries, ValidEntry)
  IN /\ nimports < MaxImports
     /\ ImportResult(store, f, title).res = "ok"
     /\ k \in 1..Len(valid)
     /\ nimports' = nimports + 1
     /\ store' = PutAll(store, Without(valid, k), title)
     /\ last' = Last("import", ImportCatch(ErrStore), 0, NoId)
     /\ UNCHANGED <<db, edit, clock, title, compression, hasLZ, issued, file, nexports, dels,
                    codec, load, calls>>

\* the ids of the rows of the listing
RowIds == {r.id : r \in {x \in store : x.game = title}}

(***************************************************************************)
(* Spec: the store under saves, quick saves, deletes, export and import,   *)
(* on the pages of two games.                                              *)
(***************************************************************************)
Next ==
  \/ CreateFail
  \/ Create(<<>>, StateA, 1, 1, MaxSaves)
  \/ QuickSaveFail
  \/ QuickSave(StateA, 1, 1, MaxSaves)
  \/ \E id \in RowIds : Delete(id)
  \/ ExportAll
  \/ \E f \in ForeignFiles \cup {file} : Import(f)
  \/ \E g \in Titles : Navigate(g)

Spec == Init /\ [][Next]_vars

(***************************************************************************)
(* SpecNaming: the names of the records of one game under saves, quick     *)
(* saves, renames and deletes.                                             *)
(***************************************************************************)
NextNaming ==
  \/ CreateFail
  \/ \E name \in CreateNames : Create(name, StateA, 1, 1, MaxNamed)
  \/ QuickSave(StateA, 1, 1, MaxNamed)
  \/ \E id \in RowIds, name \in RenameNames : Rename(id, name)
  \/ \E id \in RowIds : Delete(id)

SpecNaming == Init /\ [][NextNaming]_vars

(***************************************************************************)
(* SpecQuick: quick saves only, from the empty store; two quick saves may  *)
(* fall into the same millisecond.                                         *)
(***************************************************************************)
NextQuick ==
  \/ QuickSaveFail
  \/ \E d \in 0..1, u \in 1..MaxUid : QuickSave(StateA, d, u, MaxQuickSaves)

SpecQuick == Init /\ [][NextQuick]_vars

(***************************************************************************)
(* SpecRotate: quick saves and deletes through the listing.                *)
(***************************************************************************)
NextRotate ==
  \/ QuickSaveFail
  \/ QuickSave(StateA, 1, 1, MaxRotate)
  \/ \E id \in RowIds : Delete(id)

SpecRotate == Init /\ [][NextRotate]_vars

(***************************************************************************)
(* The quick slots                                                         *)
(***************************************************************************)
QuickRecs(g) == {r \in store : r.game = g /\ IsQuick(r)}

Holders(g, s) == {r \in QuickRecs(g) : r.meta.quick = s}

NoSharedSlot(g) ==
  \A a \in QuickRecs(g), b \in QuickRecs(g) : a.meta.quick = b.meta.quick => a = b

QuickOk == last.op = "quick" /\ last.res = "ok"

\* C1: from the empty store, under quick saves only, no two quick records
\* of a title share a slot and a title never has more than QUICK_SLOTS
\* quick records.
C1_SlotExclusivity ==
  \A g \in Titles : NoSharedSlot(g) /\ Cardinality(QuickRecs(g)) <= QUICK_SLOTS

C1_Witness == nquick > QUICK_SLOTS /\ Cardinality(QuickRecs(title)) = QUICK_SLOTS

\* C2: whatever the operations that wrote the store, at most one record of
\* a title holds a given slot.
C2_OnePerSlot == \A g \in Titles : NoSharedSlot(g)

\* C3 as stated: after a quick save that returned successfully, every slot
\* ever used is held by exactly one record and there are at most
\* QUICK_SLOTS quick records, deletes through the listing included.
C3_Original ==
  QuickOk =>
    /\ \A s \in UsedSlots(title) : Cardinality(Holders(title, s)) = 1
    /\ Cardinality(QuickRecs(title)) <= QUICK_SLOTS

\* C3 as amended: after a quick save that returned successfully, no slot is
\* held by two records, the slot it filled is held by exactly one, there
\* are at most QUICK_SLOTS quick records, and, as long as no quick record
\* has been deleted through the listing, every slot ever used is held by
\* exactly one record.
C3_AfterQuickSave ==
  QuickOk =>
    /\ NoSharedSlot(title)
    /\ Cardinality(Holders(title, last.slot)) = 1
    /\ Cardinality(QuickRecs(title)) <= QUICK_SLOTS
    /\ ~dels => \A s \in UsedSlots(title) : Cardinality(Holders(title, s)) = 1

C3_Witness ==
  /\ QuickOk
  /\ dels
  /\ \E s \in UsedSlots(title) : Holders(title, s) = {}

\* C4: from the empty store, the k-th quick save that returns successfully,
\* k <= 5, fills slot k, and up to the fifth no record is deleted.
C4_FillOrder ==
  (QuickOk /\ nquick <= QUICK_SLOTS) =>
    /\ last.slot = nquick
    /\ {r.meta.quick : r \in QuickRecs(title)} = 1..nquick
    /\ \A i \in issued : \E r \in store : r.id = i.id /\ r.meta.quick = i.quick

C4_Witness == QuickOk /\ nquick = QUICK_SLOTS /\ last.slot = QUICK_SLOTS

\* a quick save returns successfully where the title has QUICK_SLOTS quick
\* records in distinct slots
FullStep ==
  /\ last'.op = "quick"
  /\ last'.res = "ok"
  /\ Cardinality(QuickRecs(title)) = QUICK_SLOTS
  /\ NoSharedSlot(title)

\* the step replaces v by one new record in v's slot and changes nothing else
Replaces(v) ==
  /\ last'.slot = v.meta.quick
  /\ \E n \in store' :
       /\ n.id = last'.id
       /\ n.id \notin {r.id : r \in store}
       /\ n.meta.quick = v.meta.quick
       /\ store' = (store \ {v}) \cup {n}

\* C5 as stated: such a quick save replaces a record with the smallest
\* timestamp, the least recently saved, by the new record in its slot and
\* leaves the others; the sixth call after filling slots 1..5 reuses slot 1.
C5_Original ==
  [][FullStep =>
       /\ \E v \in QuickRecs(title) :
            /\ \A o \in QuickRecs(title) : v.meta.ts <= o.meta.ts
            /\ Replaces(v)
       /\ nquick' = QUICK_SLOTS + 1 => last'.slot = 1]_vars

\* C5 as amended: such a quick save replaces the record with the smallest
\* timestamp, among several of them the one with the smallest id, by the
\* new record in its slot and leaves the others; the sixth call after
\* filling slots 1..5 reuses slot 1 when the record in slot 1 is older than
\* the other four.
C5_Eviction ==
  [][FullStep =>
       /\ \E v \in QuickRecs(title) :
            /\ \A o \in QuickRecs(title) \ {v} :
                 \/ v.meta.ts < o.meta.ts
                 \/ v.meta.ts = o.meta.ts /\ IdLess(v.id, o.id)
            /\ Replaces(v)
       /\ (/\ nquick' = QUICK_SLOTS + 1
           /\ \E a \in Holders(title, 1) :
                \A o \in QuickRecs(title) \ {a} : a.meta.ts < o.meta.ts)
          => last'.slot = 1]_vars

C5_Witness ==
  /\ QuickOk
  /\ nquick = QUICK_SLOTS + 1
  /\ Cardinality(QuickRecs(title)) = QUICK_SLOTS
  /\ last.slot # 1

(***************************************************************************)
(* Names                                                                   *)
(***************************************************************************)
\* the largest N for which a manual record of the title is named "Save N"
LargestSaveN ==
  Max({0} \cup {N \in 1..LargestN :
                  \E r \in store : /\ r.game = title
                                   /\ r.meta.quick = NULL
                                   /\ r.meta.name = <<"Save", " ">> \o NatToStr(N)})

\* C6: a create with a blank name names the new record "Save (max+1)",
\* max the largest integer N with a manual record of the title named "Save N".
C6_DefaultNaming ==
  [][\A name \in CreateNames :
       (Len(Trim(name)) = 0 /\ Create(name, StateA, 1, 1, MaxNamed))
         => \E r \in store' :
              /\ r.id = last'.id
              /\ r.meta.name = <<"Save", " ">> \o NatToStr(LargestSaveN + 1)]_vars

(***************************************************************************)
(* Import                                                                  *)
(***************************************************************************)
Importable == ForeignFiles \cup {file}

\* C7: an import of an array whose first entry's fmt is not the current
\* version fails with "Incompatible save version", and an import that
\* fails with that, "Invalid format" or "No valid saves found in file."
\* leaves the store as it was.
C7_VersionGate ==
  [][/\ (last'.op = "import"
         /\ last'.res \in {ErrInvalidFormat, ErrIncompatible, ErrNoValid})
          => store' = store
     /\ \A f \in Importable :
          (/\ Import(f)
           /\ f.kind = "array"
           /\ Len(f.entries) > 0
           /\ f.entries[1].meta.fmt # METADATA_FORMAT_VERSION)
            => (last'.res = ErrIncompatible /\ store' = store)]_vars

C7_Witness ==
  /\ last.op = "import"
  /\ last.res = ErrIncompatible
  /\ store # {}

\* C8: an import of an array that passes the version check and has an
\* entry with an id, a state and a timestamp succeeds and puts exactly
\* those entries, each with game set to the current title (of two with one
\* id the later); every other record stays as it was.
C8_PartialImport ==
  [][\A f \in Importable :
       LET n == Len(f.entries)
           Good(i) == /\ f.entries[i].id # NoId
                      /\ f.entries[i].state # <<>>
                      /\ f.entries[i].meta.ts # NULL
           Home(i) == [f.entries[i] EXCEPT !.game = title]
       IN (/\ Import(f)
           /\ f.kind = "array"
           /\ n > 0
           /\ f.entries[1].meta.fmt = METADATA_FORMAT_VERSION
           /\ \E i \in 1..n : Good(i))
            => /\ last'.res = "ok"
               /\ \A i \in 1..n :
                    (Good(i) /\ \A j \in (i + 1)..n :
                                  Good(j) => f.entries[j].id # f.entries[i].id)
                      => Home(i) \in store'
               /\ \A r \in store' :
                    r \in store \/ \E i \in 1..n : Good(i) /\ r = Home(i)
               /\ \A r \in store :
                    (\A i \in 1..n : Good(i) => f.entries[i].id # r.id)
                      => r \in store']_vars

\* C9: no operation changes the listing of a title other than the current
\* one.
C9_Isolation ==
  [][\A g \in Titles \ {title} : DBlist(store', g) = DBlist(store, g)]_vars

(***************************************************************************)
(* SpecCodec: dec applied to what enc returns, for one value; the          *)
(* compression setting may change in between.                              *)
(***************************************************************************)
CodecChars == {"a", "\"", "\\"}

CodecStrs == UNION {[1..n -> CodecChars] : n \in 0..MaxStrLen}

CodecAtoms ==
  {JNull, JUndef, JNaN, JBool(TRUE), JBool(FALSE), JNum(0), JNum(10), JNum(205)}
  \cup {JStr(s) : s \in CodecStrs}

CodecMembers == {JNull, JUndef, JNaN, JNum(7), JStr(<<"\"">>), JArr(<<>>), JObj(<<>>)}

CodecArrays ==
  {JArr(<<>>)} \cup {JArr(<<a>>) : a \in CodecMembers}
  \cup {JArr(<<a, b>>) : a \in CodecMembers, b \in CodecMembers}

CodecObjects ==
  {JObj(<<>>)}
  \cup {JObj(<< <<k, a>> >>) : k \in {<<"k">>, <<"\\", "\"">>}, a \in CodecMembers}
  \cup {JObj(<< <<<<"k">>, a>>, <<<<"\"">>, b>> >>) : a \in CodecMembers, b \in CodecMembers}

CodecValues == CodecAtoms \cup CodecArrays \cup CodecObjects \cup GameStates

InitCodec ==
  /\ store = {}
  /\ clock = 1
  /\ title = "g1"
  /\ compression \in BOOLEAN
  /\ hasLZ \in BOOLEAN
  /\ issued = {}
  /\ file = NoFile
  /\ nexports = 0
  /\ nimports = 0
  /\ last = Last("init", "ok", 0, NoId)
  /\ dels = FALSE
  /\ codec \in {[CodecIdle EXCEPT !.pc = "in", !.s = x] : x \in CodecValues}
  /\ load = LoadIdle
  /\ calls = CallsIdle
  /\ edit = EditIdle
  /\ db = DbReady

CodecEnc ==
  /\ codec.pc = "in"
  /\ codec' = [codec EXCEPT !.pc = "enc", !.r = enc(codec.s, compression, hasLZ)]
  /\ UNCHANGED <<db, edit, store, clock, title, compression, hasLZ, issued, file, nexports,
                 nimports, last, dels, load, calls>>

CodecDec ==
  /\ codec.pc = "enc"
  /\ codec' = [codec EXCEPT !.pc = "dec", !.out = dec(codec.r, hasLZ)]
  /\ UNCHANGED <<db, edit, store, clock, title, compression, hasLZ, issued, file, nexports,
                 nimports, last, dels, load, calls>>

\* the page is loaded again between the save and the load; typeof LZString
\* is evaluated anew
CodecReload ==
  /\ codec.pc = "enc"
  /\ hasLZ' = ~hasLZ
  /\ UNCHANGED <<db, edit, store, clock, title, compression, issued, file, nexports,
                 nimports, last, dels, codec, load, calls>>

NextCodec ==
  \/ CodecEnc
  \/ CodecDec
  \/ SetCompression
  \/ CodecReload

SpecCodec == InitCodec /\ [][NextCodec]_vars

\* a value JSON carries: no undefined and no NaN in it
RECURSIVE Serializable(_)
Serializable(x) ==
  CASE x.t = "undef" -> FALSE
    [] x.t = "nan" -> FALSE
    [] x.t = "arr" -> \A i \in 1..Len(x.v) : Serializable(x.v[i])
    [] x.t = "obj" -> \A i \in 1..Len(x.v) : Serializable(x.v[i][2])
    [] OTHER -> TRUE

\* C10: with the compression backend present, for every serializable value
\* and either compression setting, dec returns the value enc was given.
C10_RoundTrip ==
  (codec.pc = "dec" /\ hasLZ /\ Serializable(codec.s))
    => (codec.out.ok /\ codec.out.val = codec.s)

C10_Witness ==
  /\ codec.pc = "dec"
  /\ hasLZ
  /\ codec.r.enc = STATE_LZ
  /\ codec.s = JObj(<< <<<<"k">>, JStr(<<"\"">>)>>, <<<<"\"">>, JArr(<<>>)>> >>)
  /\ codec.out.ok


(***************************************************************************)
(* SpecLoad: load(id).  The host page is the collaborator: its functions   *)
(* saveCookie, clearScreen, loadAndRestoreGame / restoreGame and the store *)
(* initStore() returns may be there or not, may throw, and call the        *)
(* callback they are given before they return or from a later task.        *)
(* load.log lists what load has called: "save" the slot save (saveCookie   *)
(* or st.set("state" + slot)), "replay" clearScreen(fn), "inject"          *)
(* st.set("state"), each followed by how it ended.                         *)
(***************************************************************************)
ErrMissing == "Save file missing from database."

ErrNoApi == "Game API not found."

\* the message of what the host or the runtime throws
ErrHost == "TypeError"

\* the records load is called on: saved plain, saved compressed, a payload
\* that is no JSON, the payload null, and a payload that is a JSON string
LoadState(k) ==
  CASE k = 1 -> enc(StateA, FALSE, TRUE)
    [] k = 2 -> enc(StateA, TRUE, TRUE)
    [] k = 3 -> [state |-> <<"{">>, enc |-> STATE_PLAIN]
    [] k = 4 -> [state |-> <<"null">>, enc |-> STATE_PLAIN]
    [] k = 5 -> [state |-> JSONstringify(JStr(JSONstringify(StateB))), enc |-> STATE_PLAIN]
    [] OTHER -> [state |-> JSONstringify(JStr(<<"{">>)), enc |-> STATE_LZ]

LoadKinds == 1..6

LoadId(k) == [g |-> "g1", t |-> k, u |-> 1]

LoadRecords ==
  {[id |-> LoadId(k), game |-> "g1",
    meta |-> [name |-> <<"x">>, scene |-> <<>>, ts |-> k, quick |-> NULL,
              fmt |-> METADATA_FORMAT_VERSION],
    state |-> LoadState(k).state, enc |-> LoadState(k).enc] : k \in LoadKinds}

\* load(id) up to the slot save: the error caught on the way, "" if none
LoadPrefix(S, id, api, lz) ==
  LET r == CHOOSE x \in DBget(S, id) : TRUE
      s == dec(r, lz)
      p == IF s.val.t = "str" THEN JSONparse(s.val.v) ELSE [ok |-> TRUE, val |-> s.val]
  IN IF DBget(S, id) = {} THEN ErrMissing
     ELSE IF ~api THEN ErrNoApi
     ELSE IF ~s.ok THEN s.err
     ELSE IF ~p.ok THEN ErrSyntax
     ELSE IF p.val.t = "null" THEN ErrHost
     ELSE ""

\* st.set("state", parsedState, () => location.reload()): [log, threw]
Inject(L, st, j) ==
  IF st /\ j = "ok" THEN [log |-> L \o <<"inject", "reload">>, threw |-> FALSE]
  ELSE [log |-> L \o <<"inject", "injectThrew">>, threw |-> TRUE]

\* run with the fallback ahead of the replay (a faulty variant of RunBody)
RunInjectFirst(L, hooks, r, st, j) ==
  LET I == Inject(L, st, j)
  IN IF ~I.threw \/ ~hooks THEN I
     ELSE [log |-> I.log \o <<"replay", IF r = "ok" THEN "replayOk" ELSE "replayThrew">>,
           threw |-> FALSE]

\* run(): [log, threw]
RunBody(L, hooks, r, st, j) ==
  LET L1 == IF hooks
            THEN L \o <<"replay", IF r = "ok" THEN "replayOk" ELSE "replayThrew">>
            ELSE L
  IN IF hooks /\ r = "ok" THEN [log |-> L1, threw |-> FALSE] ELSE Inject(L1, st, j)

Outcomes == {"ok", "throw"}

InitLoad ==
  /\ store = LoadRecords
  /\ clock = 1
  /\ title = "g1"
  /\ compression \in BOOLEAN
  /\ hasLZ \in BOOLEAN
  /\ issued = {}
  /\ file = NoFile
  /\ nexports = 0
  /\ nimports = 0
  /\ last = Last("init", "ok", 0, NoId)
  /\ dels = FALSE
  /\ codec = CodecIdle
  /\ load = LoadIdle
  /\ calls = CallsIdle
  /\ edit = EditIdle
  /\ db = DbReady

\* load(id) from the Load button of a row, up to the slot save
LoadCall(id, api, cookie, hooks, st) ==
  LET e == LoadPrefix(store, id, api, hasLZ)
  IN /\ load.pc \in {"idle", "done", "hung"}
     /\ load' = [LoadIdle EXCEPT !.pc = IF e = "" THEN "engine" ELSE "done",
                                 !.cookie = cookie, !.hooks = hooks, !.st = st,
                                 !.toasts = IF e = "" THEN <<>> ELSE <<e>>]
     /\ last' = Last("load", IF e = "" THEN "ok" ELSE e, 0, id)
     /\ UNCHANGED <<db, edit, store, clock, title, compression, hasLZ, issued, file, nexports,
                    nimports, dels, codec, calls>>

\* the slot save and what follows it inside load: h is what the host does
\* with the callback run, r, j1 and j2 how the replay and the injections end
LoadEngine(h, r, j1, j2) ==
  LET threw == h = "throw" \/ (~load.cookie /\ ~load.st)
      L == load.log \o <<"save">>
      R == RunBody(L, load.hooks, r, load.st, j1)
      I == Inject(IF threw THEN L \o <<"saveThrew">> ELSE R.log, load.st, j2)
  IN /\ load.pc = "engine"
     /\ load' =
          IF threw \/ (h = "sync" /\ R.threw)
          THEN [load EXCEPT !.pc = "done", !.log = I.log,
                            !.toasts = IF I.threw THEN <<ErrHost>> ELSE <<>>]
          ELSE IF h = "sync" THEN [load EXCEPT !.pc = "done", !.log = R.log]
          ELSE IF h = "later" THEN [load EXCEPT !.pc = "pending", !.log = L]
          ELSE [load EXCEPT !.pc = "hung", !.log = L]
     /\ UNCHANGED <<db, edit, store, clock, title, compression, hasLZ, issued, file, nexports,
                    nimports, last, dels, codec, calls>>

\* the host calls run from a later task, load having returned
LoadRunLater(r, j) ==
  LET R == RunBody(load.log, load.hooks, r, load.st, j)
  IN /\ load.pc = "pending"
     /\ load' = [load EXCEPT !.pc = "done", !.log = R.log, !.uncaught = R.threw]
     /\ UNCHANGED <<db, edit, store, clock, title, compression, hasLZ, issued, file, nexports,
                    nimports, last, dels, codec, calls>>

NextLoad ==
  \/ \E k \in LoadKinds \cup {9}, api \in BOOLEAN, cookie \in BOOLEAN,
        hooks \in BOOLEAN, st \in BOOLEAN : LoadCall(LoadId(k), api, cookie, hooks, st)
  \/ \E h \in {"throw", "sync", "later", "never"}, r \in Outcomes,
        j1 \in Outcomes, j2 \in Outcomes : LoadEngine(h, r, j1, j2)
  \/ \E r \in Outcomes, j \in Outcomes : LoadRunLater(r, j)

SpecLoad == InitLoad /\ [][NextLoad]_vars

\* whether x occurs in the sequence L
Logged(L, x) == \E i \in 1..Len(L) : L[i] = x

\* the position of the first x in L
FirstAt(L, x) == CHOOSE i \in 1..Len(L) : L[i] = x /\ \A k \in 1..(i - 1) : L[k] # x

\* load has ended without the game restored or about to reload
LoadFailed ==
  /\ load.pc = "done"
  /\ ~Logged(load.log, "replayOk")
  /\ ~Logged(load.log, "reload")

\* C12: no failure of load(id) escapes: whatever fails, nothing is thrown
\* uncaught, and a load that has failed has shown one "Load failed" message.
C12_LoadNeverThrows ==
  /\ ~load.uncaught
  /\ LoadFailed => Len(load.toasts) = 1

\* x is logged in L ahead of the first y
Before(L, x, y) == Logged(L, x) /\ FirstAt(L, x) < FirstAt(L, y)

EntEdited ==
  [id |-> [g |-> "g1", t |-> 2, u |-> 1], game |-> "g1",
   meta |-> [name |-> <<"x">>, scene |-> <<>>, ts |-> 2, quick |-> NULL,
             fmt |-> METADATA_FORMAT_VERSION],
   state |-> JSONstringify(StateB), enc |-> STATE_PLAIN]

EditFiles == {NoFile, ArrayFile(<<EntGood1, EntGood2>>), ArrayFile(<<EntEdited>>)}

NextEdit ==
  \/ Create(<<>>, StateA, 1, 1, MaxEditSaves)
  \/ QuickSave(StateA, 1, 1, MaxEditSaves)
  \/ QuickSaveFail
  \/ \E id \in RowIds, name \in RenameNames : Rename(id, name)
  \/ \E id \in RowIds : Delete(id)
  \/ \E f \in EditFiles : Import(f)
  \/ CreateStoreFail
  \/ \E op \in {"list", "delete", "put"} : QuickStoreFail(op)
  \/ \E f \in EditFiles, k \in 1..2 : ImportStoreFail(f, k)

SpecEdit == Init /\ [][NextEdit]_vars

\* C14: where a store operation rejects inside create, quick or import,
\* the caller receives the error the store rejected with.
C14_StoreErrorsPropagate ==
  [][(\/ CreateStoreFail
      \/ \E op \in {"list", "delete", "put"} : QuickStoreFail(op)
      \/ \E f \in EditFiles, k \in 1..2 : ImportStoreFail(f, k))
       => last'.res = ErrStore]_vars

\* C20: the payload (state and enc) stored under an id does not change as
\* long as a record with that id exists, and a rename changes nothing of
\* a record but meta.name.
C20_PayloadImmutable ==
  [][/\ \A r \in store, n \in store' :
          n.id = r.id => (n.state = r.state /\ n.enc = r.enc)
     /\ \A id \in RowIds, name \in RenameNames :
          Rename(id, name) =>
            \A r \in store : \E n \in store' :
              /\ n.id = r.id
              /\ n = [r EXCEPT !.meta.name = n.meta.name]]_vars


(***************************************************************************)
(* SpecRepair: saves and quick saves, some of them failing, over stores  *)
(* that imports have written.                                              *)
(***************************************************************************)
\* an entry of a file with "quick": 7, older than every record of the page
EntSlot7 == ExtEntry(5, TextA, 1, 7, 1)

RepairFiles == {ArrayFile(<<EntGood2>>), ArrayFile(<<EntSlot7>>)}

NextRepair ==
  \/ QuickSave(StateA, 1, 1, MaxRepair)
  \/ Create(<<>>, StateA, 1, 1, MaxRepair)
  \/ QuickSaveFail
  \/ \E f \in RepairFiles : Import(f)

SpecRepair == Init /\ [][NextRepair]_vars

\* C16: the quick slot of every stored record is null or an integer of
\* 1..QUICK_SLOTS, and quick() creates no record with a slot outside 1..QUICK_SLOTS.
C16_SlotRange ==
  /\ \A r \in store : r.meta.quick = NULL \/ r.meta.quick \in 1..QUICK_SLOTS
  /\ QuickOk => last.slot \in 1..QUICK_SLOTS

\* C17: a quick save that fails leaves every record that held its target
\* slot in the store.
C17_FailedQuickSaveKeeps ==
  [][(last'.op = "quick" /\ last'.res # "ok")
       => \A r \in Holders(title, last'.slot) : r \in store']_vars

\* a quick save returns successfully
QuickStep == last'.op = "quick" /\ last'.res = "ok"

\* C18: a successful quick save that targets slot t removes every record of
\* the title that held t, however many, and puts one record holding t;
\* the other records stay.
C18_DefensiveRepair ==
  [][QuickStep =>
       /\ \A r \in Holders(title, last'.slot) : r \notin store'
       /\ \A r \in store \ Holders(title, last'.slot) : r \in store'
       /\ \E n \in store' :
            /\ n.id = last'.id
            /\ n \notin store
            /\ {r \in store' : r.game = title /\ IsQuick(r)
                               /\ r.meta.quick = last'.slot} = {n}
            /\ store' \ store = {n}]_vars

C18_Witness ==
  /\ QuickOk
  /\ last.slot = 1
  /\ nimports = 1
  /\ ~dels
  /\ nquick = QUICK_SLOTS
  /\ Cardinality(QuickRecs(title)) = QUICK_SLOTS - 1
  /\ \A r \in store : r.id.g # "ext"

\* C19: with fewer than QUICK_SLOTS quick records, a successful quick save
\* fills the lowest slot of 1..QUICK_SLOTS that no quick record of the
\* title holds and removes no record.
C19_LowestUnused ==
  [][(QuickStep /\ Cardinality(QuickRecs(title)) < QUICK_SLOTS)
       => /\ last'.slot =
               Min((1..QUICK_SLOTS) \ {r.meta.quick : r \in QuickRecs(title)})
          /\ \A r \in store : r \in store']_vars

C19_Witness ==
  /\ QuickOk
  /\ last.slot = 3
  /\ dels
  /\ nimports = 0
  /\ nquick = QUICK_SLOTS + 1
  /\ {r.meta.quick : r \in QuickRecs(title)} = 1..QUICK_SLOTS


(***************************************************************************)
(* SpecRace: two quick() calls for one title, each advancing by one store  *)
(* operation at a time.  A call holds the listing it read (q), the slot    *)
(* it chose (s) and how far its delete loop has come (i).                  *)
(***************************************************************************)
\* a store holding n quick records in the slots 1..n, saved at 1..n
RaceStore(n) ==
  {[id |-> [g |-> "g1", t |-> k, u |-> 3], game |-> "g1",
    meta |-> [name |-> SlotName(k), scene |-> <<"a">>, ts |-> k, quick |-> k,
              fmt |-> METADATA_FORMAT_VERSION],
    state |-> TextA, enc |-> STATE_PLAIN] : k \in 1..n}

InitRace ==
  /\ store \in {RaceStore(n) : n \in 0..QUICK_SLOTS}
  /\ clock = QUICK_SLOTS
  /\ title = "g1"
  /\ compression \in BOOLEAN
  /\ hasLZ = TRUE
  /\ issued = {}
  /\ file = NoFile
  /\ nexports = 0
  /\ nimports = 0
  /\ last = Last("init", "ok", 0, NoId)
  /\ dels = FALSE
  /\ codec = CodecIdle
  /\ load = LoadIdle
  /\ calls = CallsIdle
  /\ edit = EditIdle
  /\ db = DbReady

\* the positions of q, after the first i, whose record holds slot s
Pending(c) ==
  {k \in (calls[c].i + 1)..Len(calls[c].q) : calls[c].q[k].meta.quick = calls[c].s}

\* quick(): db.list and the choice of the slot
CallList(c) ==
  LET q == qSavesOf(store, title)
  IN /\ calls[c].pc = "idle"
     /\ calls' = [calls EXCEPT ![c] = [pc |-> "evict", q |-> q, s |-> TargetSlot(q),
                                      i |-> 0]]
     /\ UNCHANGED <<db, edit, store, clock, title, compression, hasLZ, issued, file, nexports,
                    nimports, last, dels, codec, load>>

\* quick(): one db.delete of the loop
CallDelete(c) ==
  /\ calls[c].pc = "evict"
  /\ Pending(c) # {}
  /\ store' = DBdelete(store, calls[c].q[Min(Pending(c))].id)
  /\ calls' = [calls EXCEPT ![c].i = Min(Pending(c))]
  /\ UNCHANGED <<db, edit, clock, title, compression, hasLZ, issued, file, nexports,
                 nimports, last, dels, codec, load>>

\* create(): capture() and db.list, the loop of quick() being over
CallCapture(c) ==
  /\ calls[c].pc = "evict"
  /\ Pending(c) = {}
  /\ calls' = [calls EXCEPT ![c].pc = "create"]
  /\ UNCHANGED <<db, edit, store, clock, title, compression, hasLZ, issued, file, nexports,
                 nimports, last, dels, codec, load>>

\* create(): db.put; quick() returns
CallPut(c, d) ==
  LET id == [g |-> title, t |-> clock + d, u |-> c]
      rec == NewRecord(StateA, id, title, clock + d, SlotName(calls[c].s), calls[c].s,
                       compression, hasLZ, DBlist(store, title))
  IN /\ calls[c].pc = "create"
     /\ store' = DBput(store, rec)
     /\ clock' = clock + d
     /\ issued' = issued \cup {[id |-> id, quick |-> calls[c].s]}
     /\ last' = Last("quick", "ok", calls[c].s, id)
     /\ calls' = [calls EXCEPT ![c].pc = "done"]
     /\ UNCHANGED <<db, edit, title, compression, hasLZ, file, nexports, nimports, dels, codec,
                    load>>

NextRace ==
  \/ \E c \in Callers : CallList(c)
  \/ \E c \in Callers : CallDelete(c)
  \/ \E c \in Callers : CallCapture(c)
  \/ \E c \in Callers, d \in 0..1 : CallPut(c, d)

SpecRace == InitRace /\ [][NextRace]_vars

\* C15: two quick() calls that interleave can pick the same slot, and when
\* they have, both records they put stay: once both have returned, two
\* quick records of the title hold that slot.
C15_Race ==
  (/\ \A c \in Callers : calls[c].pc = "done"
   /\ calls[1].s = calls[2].s)
    => Cardinality(Holders(title, calls[1].s)) = 2

C15_Witness ==
  /\ \A c \in Callers : calls[c].pc = "done"
  /\ \E a \in QuickRecs(title), b \in QuickRecs(title) :
       a # b /\ a.meta.quick = b.meta.quick

\* C11: dec of a record tagged STATE_LZ where LZString is undefined returns
\* no state and fails with an error that tells the missing backend from
\* corrupted data.
C11_CodecUnavailable ==
  (codec.pc = "dec" /\ codec.r.enc = STATE_LZ /\ ~hasLZ)
    => (~codec.out.ok /\ codec.out.err # DecodeError)

(***************************************************************************)
(* SpecCreate: create(name) and quick() on the pages of two games, over    *)
(* stores that hold imported records too; capture() and the store may      *)
(* fail.                                                                   *)
(***************************************************************************)
NextCreate ==
  \/ CreateFail
  \/ CreateStoreFail
  \/ \E name \in CreateNames, d \in 0..1, u \in 1..MaxUid :
       Create(name, StateA, d, u, MaxCreate)
  \/ QuickSave(StateB, 1, 1, MaxCreate)
  \/ Import(ArrayFile(<<EntGood2>>))
  \/ \E g \in Titles : Navigate(g)

SpecCreate == Init /\ [][NextCreate]_vars

\* C21: a create that fails leaves the store as it was; a create that
\* succeeds adds exactly one record, under an id no record of the store
\* had, with the current title, and leaves every other record as it was;
\* the create inside a quick save adds exactly one such record, holding
\* the slot quick() chose.
C21_CreateFrame ==
  [][/\ (last'.op = "create" /\ last'.res # "ok") => store' = store
     /\ (last'.op = "create" /\ last'.res = "ok") =>
          \E n \in store' :
            /\ n.id = last'.id
            /\ n.id \notin {r.id : r \in store}
            /\ n.game = title
            /\ n.meta.quick = NULL
            /\ store' = store \cup {n}
     /\ QuickStep =>
          \E n \in store' :
            /\ n.id = last'.id
            /\ n.id \notin {r.id : r \in store}
            /\ n.game = title
            /\ n.meta.quick = last'.slot
            /\ store' \ store = {n}]_vars

\* two saves under one name in the same millisecond, next to an imported record
C21_Witness ==
  /\ last.op = "create"
  /\ last.res = "ok"
  /\ nimports = 1
  /\ \E a \in store, b \in store :
       /\ a.id # b.id
       /\ a.game = title /\ b.game = title
       /\ a.meta.name = b.meta.name
       /\ a.meta.ts = b.meta.ts
       /\ a.id.g # "ext" /\ b.id.g # "ext"

(***************************************************************************)
(* SpecImport: imports of files written elsewhere into the stores of two   *)
(* games.                                                                  *)
(***************************************************************************)
NextImport ==
  \/ Create(<<>>, StateA, 1, 1, MaxImportSaves)
  \/ \E id \in RowIds : Delete(id)
  \/ \E f \in ForeignFiles : Import(f)
  \/ \E g \in Titles : Navigate(g)

SpecImport == Init /\ [][NextImport]_vars

\* C22: an import of an array fails with "Incompatible save version"
\* exactly when the array is empty or its first entry does not carry the
\* current version, whatever the later entries carry; where it passes,
\* every later entry with an id, a state and a timestamp is stored with
\* the version it carries.
C22_FirstEntryOnly ==
  [][\A f \in ForeignFiles :
       LET n == Len(f.entries)
           Good(i) == /\ f.entries[i].id # NoId
                      /\ IsKey(f.entries[i].id)
                      /\ f.entries[i].state # <<>>
                      /\ f.entries[i].meta.ts # NULL
           Gate == n > 0 /\ f.entries[1].meta.fmt = METADATA_FORMAT_VERSION
       IN (Import(f) /\ f.kind = "array")
            => /\ (last'.res = ErrIncompatible) <=> ~Gate
               /\ Gate =>
                    \A i \in 2..n :
                      (Good(i) /\ \A j \in (i + 1)..n : f.entries[j].id # f.entries[i].id)
                        => \E r \in store' :
                             /\ r.id = f.entries[i].id
                             /\ r.meta.fmt = f.entries[i].meta.fmt]_vars

\* an import has gone through whose first entry carries version 1 and
\* whose last carries version 2
C22_Witness ==
  /\ last.op = "import"
  /\ last.res = "ok"
  /\ \E r \in store : r.id = EntV2.id /\ r.meta.fmt = 2 /\ r.game = title

(***************************************************************************)
(* SpecNames: the names of the records of one game under saves, quick      *)
(* saves, renames, deletes and imports.                                    *)
(***************************************************************************)
\* an entry of a file with "name": "", and one with "name": " "
EntNoName == [ExtEntry(6, TextA, 1, NULL, 1) EXCEPT !.meta.name = <<>>]

EntBlankName == [ExtEntry(7, TextA, 1, NULL, 1) EXCEPT !.meta.name = <<" ">>]

NameFiles == {ArrayFile(<<EntGood1, EntNoName>>), ArrayFile(<<EntBlankName>>)}

NextNames ==
  \/ \E name \in CreateNames : Create(name, StateA, 1, 1, MaxNamed)
  \/ QuickSave(StateA, 1, 1, MaxNamed)
  \/ \E id \in RowIds, name \in RenameNames : Rename(id, name)
  \/ \E f \in NameFiles : Import(f)

SpecNames == Init /\ [][NextNames]_vars

\* C23: the name of every stored record is non-empty after trimming.
C23_NamesNonEmpty == \A r \in store : Len(Trim(r.meta.name)) > 0

(***************************************************************************)
(* SpecHeal: quick() called again and again, each call returning before    *)
(* the next, on a store that two racing calls or an import have left with  *)
(* a shared slot or more than QUICK_SLOTS quick records.                   *)
(***************************************************************************)
\* a quick record of g1 saved at 1 in the given slot
HealRec(u, slot) ==
  [id |-> [g |-> "ext", t |-> 1, u |-> u], game |-> "g1",
   meta |-> [name |-> SlotName(slot), scene |-> <<"a">>, ts |-> 1, quick |-> slot,
             fmt |-> METADATA_FORMAT_VERSION],
   state |-> TextA, enc |-> STATE_PLAIN]

\* an imported quick record whose "ts" lies ahead of the clock of the page
HealLate(u, slot) == [HealRec(u, slot) EXCEPT !.meta.ts = 99]

\* two racing calls on the empty store; slots 1..5 with a second record in
\* slot 3; slots 1..5 and an imported record with "quick": 7; slots 2..5
\* and two imported records in slot 1 dated ahead
HealStores ==
  { {HealRec(1, 1), HealRec(2, 1)},
    {HealRec(1, 1), HealRec(2, 2), HealRec(3, 3), HealRec(4, 3), HealRec(5, 4),
     HealRec(6, 5)},
    {HealRec(1, 1), HealRec(2, 2), HealRec(3, 3), HealRec(4, 4), HealRec(5, 5),
     HealRec(6, 7)},
    {HealLate(1, 1), HealLate(2, 1), HealRec(3, 2), HealRec(4, 3), HealRec(5, 4),
     HealRec(6, 5)} }

InitHeal ==
  /\ store \in HealStores
  /\ clock = 1
  /\ title = "g1"
  /\ compression \in BOOLEAN
  /\ hasLZ = TRUE
  /\ issued = {}
  /\ file = NoFile
  /\ nexports = 0
  /\ nimports = 0
  /\ last = Last("init", "ok", 0, NoId)
  /\ dels = FALSE
  /\ codec = CodecIdle
  /\ load = LoadIdle
  /\ calls = CallsIdle
  /\ edit = EditIdle
  /\ db = DbReady

NextHeal == \E st \in GameStates : QuickSave(st, 1, 1, MaxHeal)

\* a call can be made: the guard of NextHeal
CanCall == Cardinality(issued) < MaxHeal /\ clock + 1 <= MaxClock

\* a call as the clock shows it: quick() has returned, having read a later
\* Date.now().  Every step of NextHeal is such a step, and one is possible
\* exactly where NextHeal is.
CallReturns == CanCall /\ clock' = clock + 1

\* the calls keep coming as long as one can be made
SpecHeal == InitHeal /\ [][NextHeal]_vars /\ WF_clock(CallReturns)

Repaired == NoSharedSlot(title) /\ Cardinality(QuickRecs(title)) <= QUICK_SLOTS

EntQuick2 == ExtEntry(8, TextA, 2, 2, 1)

EntQuick3 == ExtEntry(9, TextA, 2, 3, 1)

NextManual ==
  \/ Create(<<>>, StateA, 1, 1, MaxManual)
  \/ QuickSave(StateA, 1, 1, MaxManual)
  \/ QuickSaveFail
  \/ Import(ArrayFile(<<EntGood1, EntGood2, EntQuick2, EntQuick3>>))
  \/ \E g \in Titles : Navigate(g)

SpecManual == Init /\ [][NextManual]_vars

ManualRecs(S) == {r \in S : r.meta.quick = NULL}

\* C25: a quick() call, whether it returns or throws, leaves the manual
\* records of every title as they were.
C25_ManualUntouched ==
  [][last'.op = "quick" => ManualRecs(store') = ManualRecs(store)]_vars

\* a quick save has removed the imported quick record next to manual
\* records of both titles, one of them imported
C25_Witness ==
  /\ QuickOk
  /\ last.slot = 1
  /\ nimports = 1
  /\ [EntGood1 EXCEPT !.game = title] \in store
  /\ \A r \in store : r.id # EntGood2.id
  /\ \E r \in ManualRecs(store) : r.game # title
  /\ Cardinality(QuickRecs(title)) = QUICK_SLOTS

(***************************************************************************)
(* SpecRename: rename-save advancing by one store operation at a time      *)
(* (db.get, then db.put), next to deletes through the listing and a        *)
(* quick() call that advances the same way.                                *)
(***************************************************************************)
\* rename-save on the row of record id: db.get
RenameGet(id) ==
  /\ edit.pc = "idle"
  /\ edit' = [pc |-> "got", id |-> id, obj |-> DBget(store, id)]
  /\ UNCHANGED <<store, clock, title, compression, hasLZ, issued, file, nexports,
                 nimports, last, dels, codec, load, calls, db>>

\* rename-save: the name is set on the object db.get returned, then db.put
RenamePut(name) ==
  LET new == IF Len(Trim(name)) > 0 THEN Trim(name) ELSE <<"Unnamed Save">>
  IN /\ edit.pc = "got"
     /\ store' = IF edit.obj = {} THEN store
                 ELSE LET o == CHOOSE r \in edit.obj : TRUE
                      IN DBput(store, [o EXCEPT !.meta.name = new])
     /\ edit' = EditIdle
     /\ last' = Last("rename", "ok", 0, edit.id)
     /\ UNCHANGED <<clock, title, compression, hasLZ, issued, file, nexports,
                    nimports, dels, codec, load, calls, db>>

\* the page holds quick saves in all the slots
InitRename == InitRace /\ Cardinality(store) = QUICK_SLOTS

\* the rows the user renames and deletes: those of the two oldest records
EditRows == {id \in RowIds : id.t <= 2}

NextRename ==
  \/ \E id \in EditRows : RenameGet(id)
  \/ \E name \in RenameNames : RenamePut(name)
  \/ \E id \in EditRows : Delete(id)
  \/ CallList(1)
  \/ CallDelete(1)
  \/ CallCapture(1)
  \/ CallPut(1, 1)

SpecRename == InitRename /\ [][NextRename]_vars

\* C26: a record that has been deleted does not come back: an id enters
\* the store only as the new id of a record create() puts.
C26_DeletedStaysDeleted ==
  [][\A r \in store' :
       r.id \notin {x.id : x \in store}
         => /\ last'.op \in {"create", "quick"}
            /\ r.id = last'.id
            /\ r.id \notin IssuedIds]_vars

(***************************************************************************)
(* SpecStore: the operations of DB on a page whose indexedDB may refuse    *)
(* to open the database and may recover.                                   *)
(***************************************************************************)
\* DB.open(): the promise in dbP is returned where there is one, settled
\* or not; else indexedDB.open is called and its promise kept
DBopen(d) == IF d.dbP = "none" THEN (IF d.healthy THEN "open" ELSE "failed") ELSE d.dbP

StoreRecs == RaceStore(2)

InitStore ==
  /\ store = {}
  /\ clock = 1
  /\ title = "g1"
  /\ compression \in BOOLEAN
  /\ hasLZ = TRUE
  /\ issued = {}
  /\ file = NoFile
  /\ nexports = 0
  /\ nimports = 0
  /\ last = Last("init", "ok", 0, NoId)
  /\ dels = FALSE
  /\ codec = CodecIdle
  /\ load = LoadIdle
  /\ calls = CallsIdle
  /\ edit = EditIdle
  /\ db \in {[DbNone EXCEPT !.healthy = h] : h \in BOOLEAN}

\* DB.put(r), DB.get(r.id), DB.delete(r.id), DB.list(r.game): open(), then
\* one transaction with one request; the request fails where indexedDB
\* cannot serve it
StoreOp(op, r) ==
  LET p == DBopen(db)
      ok == p = "open" /\ db.healthy
  IN /\ db' = [db EXCEPT !.dbP = p]
     /\ store' = IF ok /\ op = "put" THEN DBput(store, r)
                 ELSE IF ok /\ op = "delete" THEN DBdelete(store, r.id)
                 ELSE store
     /\ last' = Last(op, IF ok THEN "ok" ELSE ErrStore, 0, r.id)
     /\ UNCHANGED <<clock, title, compression, hasLZ, issued, file, nexports,
                    nimports, dels, codec, load, calls, edit>>

\* the storage of the browser stops serving requests, or serves them again
StorageChange ==
  /\ db' = [db EXCEPT !.healthy = ~db.healthy]
  /\ UNCHANGED <<store, clock, title, compression, hasLZ, issued, file, nexports,
                 nimports, last, dels, codec, load, calls, edit>>

NextStore ==
  \/ \E op \in {"put", "get", "delete", "list"}, r \in StoreRecs : StoreOp(op, r)
  \/ StorageChange

SpecStore == InitStore /\ [][NextStore]_vars

\* C27: a store operation issued while the storage serves requests
\* succeeds, whatever failed before it.
C27_IndependentFailure ==
  [][\A op \in {"put", "get", "delete", "list"}, r \in StoreRecs :
       (StoreOp(op, r) /\ db.healthy) => last'.res = "ok"]_vars

(***************************************************************************)
(* SpecRound: the records of one game exported, deleted and imported from  *)
(* the file exported.                                                      *)
(***************************************************************************)
\* what the user types into the name field: nothing, and a"\
RoundNames == {<<>>, <<"a", "\"", "\\">>}

NextRound ==
  \/ \E name \in RoundNames : Create(name, StateA, 1, 1, MaxRound)
  \/ QuickSave(StateB, 1, 1, MaxRound)
  \/ ExportAll
  \/ \E id \in RowIds : Delete(id)
  \/ ImportFile(file, MaxRoundImports)

SpecRound == Init /\ [][NextRound]_vars

TitleRecs(S) == {r \in S : r.game = title}

FileRecs == {file.entries[i] : i \in 1..Len(file.entries)}

\* C28: the file exp-all writes reads back as the records of the listing;
\* the import of a non-empty such file succeeds, puts exactly the records
\* of the file, which are then all the records of the title where none was
\* left before, and changes nothing where they are all in the store
\* already.
C28_RoundTrip ==
  [][/\ ExportAll => file' = ArrayFile(DBlist(store, title))
     /\ (ImportFile(file, MaxRoundImports) /\ file.kind = "array" /\ Len(file.entries) > 0)
          => /\ last'.res = "ok"
             /\ FileRecs \subseteq store'
             /\ store' \subseteq store \cup FileRecs
             /\ TitleRecs(store) = {} => TitleRecs(store') = FileRecs
             /\ FileRecs \subseteq store => store' = store]_vars

\* the second import of a file holding a compressed record, a quick record
\* and a name with a quote, the quick record having been deleted before
C28_Witness ==
  /\ last.op = "import"
  /\ last.res = "ok"
  /\ nimports = 2
  /\ dels
  /\ TitleRecs(store) = FileRecs
  /\ \E r \in FileRecs : r.enc = STATE_LZ
  /\ \E r \in FileRecs : r.meta.quick # NULL
  /\ \E r \in FileRecs : r.meta.name = <<"a", "\"", "\\">>

====
